---- MODULE Spec2Model ----
(***************************************************************************)
(* A model of the Roblox user verifier: the Streamlit program (app.py) and *)
(* the command-line program (verification.py).  One verification run is a *)
(* sequence of steps: identity lookup, profile and group fetches, the      *)
(* instant-dismissal rules, the social-activity rule with its two          *)
(* paginated badge fetches, the final evaluation and the report.           *)
(*                                                                         *)
(* Python values: an Optional is None (the empty tuple) or Some(v) (the    *)
(* one-element tuple); a str is a tuple of one-character strings, so that  *)
(* lower() and the substring test are computed and not assumed.            *)
(***************************************************************************)
EXTENDS Integers, Sequences, FiniteSets, TLC

\* ------------------------------------------------------------------------
\* Python helpers
\* ------------------------------------------------------------------------

None == <<>>

Some(v) == <<v>>

Min(a, b) == IF a <= b THEN a ELSE b

RECURSIVE SumSeq(_)
SumSeq(s) == IF s = <<>> THEN 0 ELSE Head(s) + SumSeq(Tail(s))

UpperLetters ==
  <<"A","B","C","D","E","F","G","H","I","J","K","L","M",
    "N","O","P","Q","R","S","T","U","V","W","X","Y","Z">>

LowerLetters ==
  <<"a","b","c","d","e","f","g","h","i","j","k","l","m",
    "n","o","p","q","r","s","t","u","v","w","x","y","z">>

\* str.lower() on one character
LowerChar(c) ==
  IF \E i \in 1..Len(UpperLetters) : UpperLetters[i] = c
  THEN LowerLetters[CHOOSE i \in 1..Len(UpperLetters) : UpperLetters[i] = c]
  ELSE c

\* str.lower()
Lower(s) == [i \in 1..Len(s) |-> LowerChar(s[i])]

\* Python's "sub in s" on strings
Contains(sub, s) ==
  \E i \in 0..(Len(s) - Len(sub)) : SubSeq(s, i + 1, i + Len(sub)) = sub

Digits == {"0","1","2","3","4","5","6","7","8","9"}

\* a dismissal or red-flag reason: the kind of message, the number and the
\* text interpolated into it
Reason(kind, num, txt) == [kind |-> kind, num |-> num, txt |-> txt]

\* ------------------------------------------------------------------------
\* Program constants
\* ------------------------------------------------------------------------

MIN_ACCOUNT_AGE_DAYS == 60
MIN_FRIEND_COUNT == 30
MIN_NON_BA_GROUP_COUNT == 13
MIN_BADGE_COUNT == 300
OLDEST_BADGES_TO_CHECK == 90
USERNAME_DIGIT_THRESHOLD == 4
DISPLAY_BADGES == 30
page_limit == 100
RED_FLAG_LIMIT == 2

\* ------------------------------------------------------------------------
\* Static configuration (config.json): the Rule Parameter Set
\* ------------------------------------------------------------------------

S_alt == <<"a","l","t">>
S_british_army == <<"b","r","i","t","i","s","h"," ","a","r","m","y">>
S_docs_google == <<"d","o","c","s",".","g","o","o","g","l","e",".","c","o","m">>

\* the module-level allowlist of group owners, loaded from the configuration
VARIABLE FRIENDLY_OWNER_IDS

ConfigFriendly == {500}

\* the allowlists the blacklist rule is run with on its own
FriendlyLists == SUBSET {0, 500}
BA_UK_GROUP_IDS == {1}
BLACKLISTED_GROUP_IDS == {2, 6}
BA_BADGE_IDS == {5, 60, 95}
ConfigIFD == {11}
BA_BLACKLIST_IDS == {12}
NSFW_WORDS == {<<"b","a","d">>, <<"d","a","m","n">>}
ConfigImpersonation ==
  {<<"S","i","r","J","o","e">>, <<"b","a","d","c","o","p">>,
   <<"D","a","m","n","S","i","r">>}

\* app.py lower-cases the configured entries, verification.py does not
BA_MEMBER_IMPERSONATION_LIST(m) ==
  IF m = "app" THEN {Lower(x) : x \in ConfigImpersonation}
  ELSE ConfigImpersonation

\* ------------------------------------------------------------------------
\* Bounds of the model and the data the collaborators may deliver
\* ------------------------------------------------------------------------

\* longest list of noteworthy groups in front of the ordinary ones
MaxGroups == 1

\* longest membership list given to check_blacklists when it is run alone
MaxMemberships == 2

\* size of the partial page the badge endpoint may deliver
SmallPage == 50

UserIds == {10, 11, 12}

N_clean == <<"B","o","b">>
N_alt == <<"x","A","l","T","x">>
N_imp == <<"S","I","R","J","O","E">>
N_imp_nsfw == <<"B","a","d","C","o","p">>
N_imp_cased == <<"D","a","m","n","S","i","r">>
N_nsfw == <<"d","a","m","n","b","a","d">>
N_digits == <<"a","1","b","2","c","3","4">>

Usernames == {N_clean, N_alt, N_imp, N_imp_nsfw, N_imp_cased, N_nsfw, N_digits}

\* the profile's 'created' field: absent, a parsable ISO timestamp (with or
\* without 'Z') lying `days` whole days in the past, or an unparsable string
\* (with or without a 'Z' in it)
Created(fmt, days) == [fmt |-> fmt, days |-> days]

CreatedValues ==
  {Created("absent", 0), Created("bad", 0), Created("badZ", 0),
   Created("iso", 6 * MIN_ACCOUNT_AGE_DAYS)}
  \cup {Created("isoZ", d) : d \in {MIN_ACCOUNT_AGE_DAYS - 50,
                                    MIN_ACCOUNT_AGE_DAYS - 1,
                                    MIN_ACCOUNT_AGE_DAYS}}

Profiles == [created : CreatedValues, name : Usernames]

Group(id, name, owner) == [id |-> id, name |-> name, owner |-> owner]

GN_official == <<"B","r","i","t","i","s","h"," ","A","r","m","y">>
GN_second == <<"2","n","d"," ","B","r","i","t","i","s","h"," ","A","r","m","y">>
GN_fans == <<"B","R","I","T","I","S","H"," ","A","R","M","Y","!">>
GN_raid == <<"R","a","i","d">>
GN_club == <<"C","l","u","b">>

G_official == Group(1, GN_official, Some(500))
G_black == Group(2, GN_raid, Some(600))
G_second == Group(3, GN_second, Some(600))
G_fans == Group(4, GN_fans, Some(500))
G_noowner == Group(5, GN_fans, None)

GroupPool == {G_official, G_black, G_second, G_fans, G_noowner}

\* a blacklisted group that is an unauthorized affiliate as well
GN_raid_army ==
  <<"B","r","i","t","i","s","h"," ","A","r","m","y"," ","R","a","i","d">>

G_raid_army == Group(6, GN_raid_army, Some(600))

\* k ordinary groups (no affiliation, no blacklist)
Filler(k) == [i \in 1..k |-> Group(100 + i, GN_club, Some(600))]

SeqsUpTo(S, n) == UNION {[1..k -> S] : k \in 0..n}

GroupLists ==
  {pre \o Filler(k) : pre \in SeqsUpTo(GroupPool, MaxGroups),
                      k \in {MIN_NON_BA_GROUP_COUNT - 1, MIN_NON_BA_GROUP_COUNT}}

\* the membership lists check_blacklists is given when it is run alone: a
\* user is a member of a group once
Memberships ==
  {s \in SeqsUpTo(GroupPool \cup {G_raid_army}, MaxMemberships) :
     \A i, j \in 1..Len(s) : i # j => s[i] # s[j]}

FriendCounts == {MIN_FRIEND_COUNT - 1, MIN_FRIEND_COUNT}

\* what the badge endpoint can answer to one page request: a failure, or a
\* page of n items with a continuation cursor that is absent, empty or a token
PageSizes == {0, SmallPage, page_limit}

Cursors == {None, Some(""), Some("tok")}

Response(ok, n, cur) == [ok |-> ok, n |-> n, cur |-> cur]

Failure == Response(FALSE, 0, None)

Responses == {Failure} \cup {Response(TRUE, n, c) : n \in PageSizes, c \in Cursors}

\* the user's true number of badges
TrueTotals ==
  {0, SmallPage, page_limit + SmallPage, MIN_BADGE_COUNT, MIN_BADGE_COUNT + SmallPage}

\* the supplementary blacklist: the URL typed into the sidebar ("" when
\* none), and the CSV columns the sheet can deliver
\* "https://Docs.Google.com/s"
U_trusted == <<"h","t","t","p","s",":","/","/","D","o","c","s",".","G","o","o","g","l","e",".","c","o","m","/","s">>

\* "https://evil.com/docs.google.com"
U_other == <<"h","t","t","p","s",":","/","/","e","v","i","l",".","c","o","m","/","d","o","c","s",".","g","o","o","g","l","e",".","c","o","m">>

\* "https://docs.google.com.evil.com/s"
U_suffix == <<"h","t","t","p","s",":","/","/","d","o","c","s",".","g","o","o","g","l","e",".","c","o","m",".","e","v","i","l",".","c","o","m","/","s">>

\* "https://docs.google.com@evil.com/s"
U_userinfo == <<"h","t","t","p","s",":","/","/","d","o","c","s",".","g","o","o","g","l","e",".","c","o","m","@","e","v","i","l",".","c","o","m","/","s">>

\* "docs.google.com/s"
U_noscheme == <<"d","o","c","s",".","g","o","o","g","l","e",".","c","o","m","/","s">>

\* the first position of character c in s, 0 when there is none
Find(s, c) ==
  IF \E i \in 1..Len(s) : s[i] = c
  THEN CHOOSE i \in 1..Len(s) : s[i] = c /\ \A j \in 1..(i - 1) : s[j] # c
  ELSE 0

\* the last position of character c in s, 0 when there is none
RFind(s, c) ==
  IF \E i \in 1..Len(s) : s[i] = c
  THEN CHOOSE i \in 1..Len(s) : s[i] = c /\ \A j \in (i + 1)..Len(s) : s[j] # c
  ELSE 0

\* urlparse(url).netloc: what stands between "scheme://" and the next "/";
\* empty for a URL without "//"
Netloc(url) ==
  LET i == Find(url, ":") IN
  IF i > 1 /\ i + 2 <= Len(url) /\ url[i + 1] = "/" /\ url[i + 2] = "/"
  THEN LET rest == SubSeq(url, i + 3, Len(url))
           j == Find(rest, "/")
       IN IF j = 0 THEN rest ELSE SubSeq(rest, 1, j - 1)
  ELSE <<>>

\* urlparse(url).hostname: the netloc without its user information and its
\* port, in lower case; None when that is empty
Hostname(url) ==
  LET netloc == Netloc(url)
      hostport == SubSeq(netloc, RFind(netloc, "@") + 1, Len(netloc))
      k == Find(hostport, ":")
      host == IF k = 0 THEN hostport ELSE SubSeq(hostport, 1, k - 1)
  IN IF host = <<>> THEN None ELSE Some(Lower(host))

\* fetch_live_blacklist's guard against other hosts (app.py)
HostTrusted(url) == Hostname(url) = Some(S_docs_google)

\* the URLs of a run's sidebar
SheetUrls == {<<>>, U_trusted, U_other}

\* the URLs fetch_live_blacklist is called with on its own
CallUrls == {U_trusted, U_other, U_suffix, U_userinfo, U_noscheme}

\* the sheet's CSV text: "", "name", " 10 ,abc\n10x", and "id\n1^2" where ^2
\* stands for the one character U+00B2 (superscript two)
SheetPayloads ==
  {<<>>,
   <<"n","a","m","e">>,
   <<" ","1","0"," ",",","a","b","c","\n","1","0","x">>,
   <<"i","d","\n","1","^2">>}

\* what the sheet's host answers: a failure (None) or a CSV text
Sources == {None} \cup {Some(t) : t \in SheetPayloads}

\* ------------------------------------------------------------------------
\* The rules (pure functions)
\* ------------------------------------------------------------------------

\* 'Z' in created_str
HasZ(created) == created.fmt \in {"isoZ", "badZ"}

\* datetime.fromisoformat raises ValueError
Unparsable(created) == created.fmt \in {"bad", "badZ"}

\* check_account_age: raised is TRUE when the ValueError of fromisoformat
\* leaves the function (the branch for a string with a 'Z' has no try)
AgeResult(raised, dismissed, reason) ==
  [raised |-> raised, dismissed |-> dismissed, reason |-> reason]

\* days_old < MIN_ACCOUNT_AGE_DAYS
TooYoungInclusive(days_old) == days_old <= MIN_ACCOUNT_AGE_DAYS

TooYoung(days_old) == days_old < MIN_ACCOUNT_AGE_DAYS

check_account_age(user_info) ==
  LET created == user_info.created IN
  IF created.fmt = "absent"
  THEN AgeResult(FALSE, TRUE, Reason("age_unverifiable", 0, <<>>))
  ELSE IF HasZ(created) /\ Unparsable(created)
  THEN AgeResult(TRUE, FALSE, Reason("ValueError", 0, <<>>))
  ELSE IF Unparsable(created)
  THEN AgeResult(FALSE, TRUE, Reason("age_unparsable", 0, <<>>))
  ELSE IF TooYoung(created.days)
  THEN AgeResult(FALSE, TRUE, Reason("age_under", created.days, <<>>))
  ELSE AgeResult(FALSE, FALSE, Reason("age_ok", created.days, <<>>))

\* check_username: the set of results the function can return (the loop over
\* the set NSFW_WORDS meets its words in no fixed order)
UsernameResult(dismissal, flag) == [dismissal |-> dismissal, flag |-> flag]

check_username(user_info, m) ==
  LET username == Lower(user_info.name)
      hits == {w \in NSFW_WORDS : Contains(w, username)}
  IN
  IF Contains(S_alt, username)
  THEN {UsernameResult(Some(Reason("alt", 0, <<>>)), None)}
  ELSE IF username \in BA_MEMBER_IMPERSONATION_LIST(m)
  THEN {UsernameResult(Some(Reason("impersonation", 0, <<>>)), None)}
  ELSE IF hits # {}
  THEN {UsernameResult(Some(Reason("nsfw", 0, w)), None) : w \in hits}
  ELSE {UsernameResult(None, None)}

\* the owner ID, were an absent owner given the ID 0
OwnerIdOrZero(group) == IF group.owner = None THEN Some(0) ELSE group.owner

\* owner.get('userId') if isinstance(owner, dict) else None
OwnerId(group) == group.owner

\* owner_id not in FRIENDLY_OWNER_IDS
NotFriendly(owner_id) == owner_id = None \/ owner_id[1] \notin FRIENDLY_OWNER_IDS

\* the reasons one group membership adds in check_blacklists; a message
\* names the group by its name only
GroupReasons(group) ==
  (IF group.id \in BLACKLISTED_GROUP_IDS
   THEN <<Reason("blacklisted_group", 0, group.name)>> ELSE <<>>)
  \o
  (IF /\ Contains(S_british_army, Lower(group.name))
      /\ group.id \notin BA_UK_GROUP_IDS
      /\ NotFriendly(OwnerId(group))
   THEN <<Reason("other_ba_group", 0, group.name)>> ELSE <<>>)

RECURSIVE AllGroupReasons(_)
AllGroupReasons(groups) ==
  IF groups = <<>> THEN <<>>
  ELSE GroupReasons(Head(groups)) \o AllGroupReasons(Tail(groups))

\* check_blacklists leaving its group loop at the first group that adds a
\* reason
check_blacklists_early_exit(uid, groups, ifd) ==
  LET hits == {i \in 1..Len(groups) : GroupReasons(groups[i]) # <<>>} IN
  (IF uid \in ifd THEN <<Reason("ifd_blacklist", 0, <<>>)>> ELSE <<>>)
  \o (IF uid \in BA_BLACKLIST_IDS THEN <<Reason("ba_blacklist", 0, <<>>)>> ELSE <<>>)
  \o (IF hits = {} THEN <<>>
      ELSE GroupReasons(groups[CHOOSE i \in hits : \A j \in hits : i <= j]))

\* check_blacklists(user_id, groups, ifd_blacklist)
check_blacklists(uid, groups, ifd) ==
  (IF uid \in ifd THEN <<Reason("ifd_blacklist", 0, <<>>)>> ELSE <<>>)
  \o (IF uid \in BA_BLACKLIST_IDS THEN <<Reason("ba_blacklist", 0, <<>>)>> ELSE <<>>)
  \o AllGroupReasons(groups)

\* the friend count rule, were an unavailable count passed over in silence
FriendFlagsSilent(fc) ==
  IF fc # None /\ fc[1] < MIN_FRIEND_COUNT
  THEN <<Reason("few_friends", fc[1], <<>>)>> ELSE <<>>

\* check_social_activity, 1: the friend count
FriendFlags(fc) ==
  IF fc = None THEN <<Reason("friends_unverifiable", 0, <<>>)>>
  ELSE IF fc[1] < MIN_FRIEND_COUNT THEN <<Reason("few_friends", fc[1], <<>>)>>
  ELSE <<>>

\* check_social_activity, 2: the groups outside BA_UK_GROUP_IDS
NonBaGroupCount(groups) ==
  Cardinality({i \in 1..Len(groups) : groups[i].id \notin BA_UK_GROUP_IDS})

GroupFlags(groups) ==
  IF NonBaGroupCount(groups) < MIN_NON_BA_GROUP_COUNT
  THEN <<Reason("few_groups", NonBaGroupCount(groups), <<>>)>> ELSE <<>>

\* the badge count rule, were a count of zero taken for "no data" and passed
BadgeFlagsSkipZero(count) ==
  IF 0 < count /\ count < MIN_BADGE_COUNT
  THEN <<Reason("few_badges", count, <<>>)>> ELSE <<>>

\* check_social_activity, 3: the badge count
BadgeFlags(count) ==
  IF count < MIN_BADGE_COUNT THEN <<Reason("few_badges", count, <<>>)>> ELSE <<>>

\* the affiliated-badge rule without its break: one flag per affiliated badge
BaBadgeFlagsNoBreak(oldest) ==
  LET hits == {i \in 1..Len(oldest) : oldest[i] \in BA_BADGE_IDS} IN
  [k \in 1..Cardinality(hits) |->
     Reason("ba_badge",
            oldest[CHOOSE i \in hits : Cardinality({j \in hits : j <= i}) = k],
            <<>>)]

\* check_social_activity, 4: the first affiliated badge of the oldest sample
BaBadgeFlags(oldest) ==
  LET hits == {i \in 1..Len(oldest) : oldest[i] \in BA_BADGE_IDS} IN
  IF hits = {} THEN <<>>
  ELSE LET first == CHOOSE i \in hits : \A j \in hits : i <= j
       IN <<Reason("ba_badge", oldest[first], <<>>)>>

\* the final evaluation: len(red_flags) >= 2
FinalStatusStrict(flags) ==
  IF Len(flags) > RED_FLAG_LIMIT THEN "DISMISSED" ELSE "VERIFIED"

FinalStatus(flags) ==
  IF Len(flags) >= RED_FLAG_LIMIT THEN "DISMISSED" ELSE "VERIFIED"

\* ------------------------------------------------------------------------
\* The paginated badge fetchers (their pure parts)
\* ------------------------------------------------------------------------

\* "if cursor:" / "if not cursor:" -- None and "" both end the pagination
TruthyNever(cur) == FALSE

TruthyAlways(cur) == TRUE

Truthy(cur) == cur # None /\ cur[1] # ""

\* get_total_badge_count: total_badges >= pass_threshold
ThresholdMetStrict(total, threshold) == total > threshold

ThresholdMet(total, threshold) == total >= threshold

\* get_total_badge_count: total_badges += len(new_badges)
AddPageFull(total, n) == total + page_limit

AddPage(total, n) == total + n

\* get_oldest_badges: badges.extend(new_badges)
ExtendReplace(list, new) == new

Extend(list, new) == list \o new

\* get_oldest_badges: "break" on a failed request or an empty page leaves the
\* accumulated list as it is
AfterBreakDiscard(list) == <<>>

AfterBreak(list) == list

\* get_oldest_badges: badges[:total_limit]
TruncateNone(list, limit) == list

Truncate(list, limit) ==
  IF limit >= 0 THEN SubSeq(list, 1, Min(limit, Len(list)))
  ELSE SubSeq(list, 1, Len(list) + limit)

\* the items of a page of n badges, the k-th badge of the user (oldest
\* first) having the ID k
PageItems(offset, n) == [i \in 1..n |-> offset + i]

\* ------------------------------------------------------------------------
\* State
\* ------------------------------------------------------------------------

VARIABLES
  module,              \* "app" (app.py) or "cli" (verification.py)
  pc,                  \* the position of the run
  outcome,             \* what the run reported: "none" until it reports
  sheet_url,           \* the sidebar's blacklist URL ("" when none)
  IFD_BLACKLIST_IDS,   \* the module-level static blacklist
  user_id,             \* Optional[int]
  user_info,           \* Optional[profile]
  groups,              \* Optional[list of group memberships]
  temp_ifd,            \* the merged blacklist of this run
  new_ids,             \* what fetch_live_blacklist returned in this run
  sheet_cache,         \* st.cache_data's store of fetch_live_blacklist, by URL
  sheet_source,        \* what the sheet's host answers now: Optional[CSV text]
  instant_dismissals,  \* list of reasons
  red_flags,           \* list of reasons
  activity_flags,      \* check_social_activity's local red_flags
  friend_count,        \* Optional[int], what get_friend_count returned
  report,              \* the reports constructed, in order
  pass_threshold,      \* get_total_badge_count's parameter
  total_badges,        \* get_total_badge_count's running total
  badge_count,         \* what get_total_badge_count returned
  total_limit,         \* get_oldest_badges' parameter
  badges,              \* get_oldest_badges' accumulated list
  oldest_badges,       \* what get_oldest_badges returned
  cursor,              \* the running fetcher's continuation cursor
  site,                \* who called the running fetcher
  true_total,          \* the user's true number of badges
  resp,                \* history: the responses to the running fetcher's requests
  ruleLog,             \* history: the rules evaluated, in order
  calls                \* history: the requests issued, per endpoint

\* what no step of a run changes
envVars == <<FRIENDLY_OWNER_IDS, sheet_source>>

runVars ==
  <<module, outcome, sheet_url, IFD_BLACKLIST_IDS, envVars, sheet_cache, user_id, user_info, groups,
    temp_ifd, new_ids, instant_dismissals, red_flags, activity_flags, friend_count,
    report, ruleLog>>

fetchVars ==
  <<pass_threshold, total_badges, badge_count, total_limit, badges,
    oldest_badges, cursor, site, resp>>

vars == <<runVars, fetchVars, pc, true_total, calls>>

Endpoints ==
  {"lookup", "profile", "groups", "avatar", "sheet", "friends",
   "badges_desc", "badges_asc"}

Called(e) == [calls EXCEPT ![e] = @ + 1]

\* the state of a run before its first step
Fresh ==
  /\ outcome = "none"
  /\ IFD_BLACKLIST_IDS = ConfigIFD
  /\ user_id = None
  /\ user_info = None
  /\ groups = None
  /\ temp_ifd = {}
  /\ new_ids = {}
  /\ instant_dismissals = <<>>
  /\ red_flags = <<>>
  /\ activity_flags = <<>>
  /\ friend_count = None
  /\ report = <<>>
  /\ total_badges = 0
  /\ badge_count = 0
  /\ badges = <<>>
  /\ oldest_badges = <<>>
  /\ cursor = Some("")
  /\ resp = <<>>
  /\ ruleLog = <<>>
  /\ calls = [e \in Endpoints |-> 0]

\* a process that has just started: the configuration is loaded and the
\* st.cache_data store is empty
ProcessStart ==
  /\ FRIENDLY_OWNER_IDS = ConfigFriendly
  /\ sheet_cache = <<>>

\* a run of either program, started with a non-empty username in a process
\* whose st.cache_data caches are empty; only app.py has the sidebar's
\* blacklist URL.  The badge endpoint of a run answers anything (Responses),
\* whatever the user's true total; the sheet's host answers with a failure
\* or with a CSV text.
Init ==
  /\ Fresh
  /\ ProcessStart
  /\ pc = "lookup"
  /\ site = "none"
  /\ pass_threshold = 0
  /\ total_limit = 0
  /\ module \in {"app", "cli"}
  /\ sheet_url \in (IF module = "app" THEN SheetUrls ELSE {<<>>})
  /\ sheet_source \in (IF HostTrusted(sheet_url) THEN Sources ELSE {None})
  /\ true_total = MIN_BADGE_COUNT

\* the run reports `o` and ends
Finish(o) == outcome' = o /\ pc' = "done"

\* ------------------------------------------------------------------------
\* The run: identity, profile, groups
\* ------------------------------------------------------------------------

\* get_user_id_from_username and "if not user_id"
Lookup ==
  /\ pc = "lookup"
  /\ \E r \in {None} \cup {Some(i) : i \in UserIds} :
       /\ user_id' = r
       /\ IF r = None
          THEN Finish("NOT_FOUND")
          ELSE pc' = "get_info" /\ outcome' = outcome
  /\ calls' = Called("lookup")
  /\ UNCHANGED <<module, sheet_url, IFD_BLACKLIST_IDS, envVars, sheet_cache, user_info, groups,
                 temp_ifd, new_ids, instant_dismissals, red_flags, activity_flags,
                 friend_count, report, ruleLog, fetchVars, true_total>>

\* get_user_info; verification.py returns at once when it fails, app.py
\* goes on to fetch the groups and looks at both results afterwards
GetUserInfo ==
  /\ pc = "get_info"
  /\ \E r \in {None} \cup {Some(p) : p \in Profiles} :
       /\ user_info' = r
       /\ IF module = "cli"
          THEN IF r = None
               THEN Finish("FETCH_ERROR")
               ELSE pc' = "age" /\ outcome' = outcome
          ELSE pc' = "get_groups" /\ outcome' = outcome
  /\ calls' = Called("profile")
  /\ UNCHANGED <<module, sheet_url, IFD_BLACKLIST_IDS, envVars, sheet_cache, user_id, groups,
                 temp_ifd, new_ids, instant_dismissals, red_flags, activity_flags,
                 friend_count, report, ruleLog, fetchVars, true_total>>

\* get_user_groups; in app.py before any rule, in verification.py between
\* the username rule and the blacklist rule
GetUserGroups ==
  /\ pc = "get_groups"
  /\ \E r \in {None} \cup {Some(g) : g \in GroupLists} :
       /\ groups' = r
       /\ IF module = "cli"
          THEN IF r = None
               THEN Finish("FETCH_ERROR")
               ELSE pc' = "blacklist" /\ outcome' = outcome
          ELSE IF user_info = None \/ r = None
               THEN Finish("FETCH_ERROR")
               ELSE pc' = "merge" /\ outcome' = outcome
  /\ calls' = Called("groups")
  /\ UNCHANGED <<module, sheet_url, IFD_BLACKLIST_IDS, envVars, sheet_cache, user_id, user_info,
                 temp_ifd, new_ids, instant_dismissals, red_flags, activity_flags,
                 friend_count, report, ruleLog, fetchVars, true_total>>

\* ------------------------------------------------------------------------
\* The supplementary blacklist
\* ------------------------------------------------------------------------

Whitespace == {" ", "\n", "\t"}

\* str.strip()
RECURSIVE LStrip(_)
LStrip(s) == IF s # <<>> /\ Head(s) \in Whitespace THEN LStrip(Tail(s)) ELSE s

RECURSIVE RStrip(_)
RStrip(s) ==
  IF s # <<>> /\ s[Len(s)] \in Whitespace THEN RStrip(SubSeq(s, 1, Len(s) - 1)) ELSE s

Strip(s) == RStrip(LStrip(s))

\* str.split(sep) for a one-character separator: the list of the pieces
RECURSIVE Split(_, _)
Split(s, sep) ==
  IF \E i \in 1..Len(s) : s[i] = sep
  THEN LET i == CHOOSE k \in 1..Len(s) : s[k] = sep /\ \A j \in 1..(k - 1) : s[j] # sep
       IN <<SubSeq(s, 1, i - 1)>> \o Split(SubSeq(s, i + 1, Len(s)), sep)
  ELSE <<s>>

\* str.splitlines(): no line for an empty text
SplitLines(s) == IF s = <<>> THEN <<>> ELSE Split(s, "\n")

\* characters that str.isdigit() accepts and int() rejects with a ValueError
\* (superscript digits and the like)
OtherDigits == {"^2"}

\* str.isdigit()
IsDigit(s) == s # <<>> /\ \A i \in 1..Len(s) : s[i] \in Digits \cup OtherDigits

\* int(col) raises ValueError
IntRaises(s) == \E i \in 1..Len(s) : s[i] \notin Digits

DigitValue(c) == CHOOSE d \in 0..9 : ToString(d) = c

\* int(col) for a string of decimal digits
RECURSIVE ToInt(_)
ToInt(s) ==
  IF s = <<>> THEN 0
  ELSE 10 * ToInt(SubSeq(s, 1, Len(s) - 1)) + DigitValue(s[Len(s)])

\* the IDs of one line: its comma-separated columns, stripped, that are digits
LineIds(line) ==
  LET cols == Split(line, ",") IN
  {ToInt(Strip(cols[i])) : i \in {k \in 1..Len(cols) : IsDigit(Strip(cols[k]))}}

\* some column of the line passes isdigit() and makes int() raise
LineRaises(line) ==
  LET cols == Split(line, ",") IN
  \E k \in 1..Len(cols) : IsDigit(Strip(cols[k])) /\ IntRaises(Strip(cols[k]))

\* the parsing loop of fetch_live_blacklist lets a ValueError through
ParseRaises(text) ==
  LET lines == SplitLines(Strip(text)) IN
  \E i \in 1..Len(lines) : LineRaises(lines[i])

\* the parsing loop of fetch_live_blacklist, when it raises nothing
ParseIds(text) ==
  LET lines == SplitLines(Strip(text)) IN
  UNION {LineIds(lines[i]) : i \in 1..Len(lines)}

\* st.cache_data's store after fetch_live_blacklist(url) has returned ids
Stored(cache, url, ids) ==
  [u \in DOMAIN cache \cup {url} |-> IF u = url THEN ids ELSE cache[u]]

\* fetch_live_blacklist(url) of module m, the sheet's host answering `source`:
\* whether a request was issued, whether the ValueError of int() came out,
\* the set returned, and the st.cache_data store afterwards.  app.py's
\* function is decorated with st.cache_data and rejects other hosts before
\* any request; verification.py's has neither the cache nor the host check.
\* A failed request yields the empty set.
fetch_live_blacklist(url, m, source, cache) ==
  IF m = "app" /\ url \in DOMAIN cache
  THEN [requested |-> FALSE, raised |-> FALSE, ids |-> cache[url], cache |-> cache]
  ELSE IF m = "app" /\ ~HostTrusted(url)
  THEN [requested |-> FALSE, raised |-> FALSE, ids |-> {},
        cache |-> Stored(cache, url, {})]
  ELSE IF source # None /\ ParseRaises(source[1])
  THEN [requested |-> TRUE, raised |-> TRUE, ids |-> {}, cache |-> cache]
  ELSE LET ids == IF source = None THEN {} ELSE ParseIds(source[1]) IN
       [requested |-> TRUE, raised |-> FALSE, ids |-> ids,
        cache |-> IF m = "app" THEN Stored(cache, url, ids) ELSE cache]

\* "temp_ifd = set(IFD_BLACKLIST_IDS) | set(new_ids)", or the plain copy
Merged(static, ids) == IF ids # {} THEN static \cup ids ELSE static

\* the module-level set after the merge, had the merge been done in place
StaticAfterMergeInPlace(static, ids) == static \cup ids

\* the module-level set after the merge: set(IFD_BLACKLIST_IDS) builds a new
\* set and "|" another, the module-level one is not written
StaticAfterMerge(static, ids) == static

\* the optional merge of the live blacklist (app.py only); the ValueError of
\* int() is not a RequestException and ends the run
MergeBlacklist ==
  /\ pc = "merge"
  /\ IF sheet_url # <<>>
     THEN LET res == fetch_live_blacklist(sheet_url, module, sheet_source,
                                          sheet_cache)
          IN /\ calls' = IF res.requested THEN Called("sheet") ELSE calls
             /\ sheet_cache' = res.cache
             /\ IF res.raised
                THEN /\ new_ids' = new_ids
                     /\ temp_ifd' = temp_ifd
                     /\ IFD_BLACKLIST_IDS' = IFD_BLACKLIST_IDS
                     /\ Finish("EXCEPTION")
                ELSE /\ new_ids' = res.ids
                     /\ temp_ifd' = Merged(IFD_BLACKLIST_IDS, res.ids)
                     /\ IFD_BLACKLIST_IDS' =
                          StaticAfterMerge(IFD_BLACKLIST_IDS, res.ids)
                     /\ pc' = "age"
                     /\ outcome' = outcome
     ELSE /\ temp_ifd' = IFD_BLACKLIST_IDS
          /\ new_ids' = new_ids
          /\ pc' = "age"
          /\ outcome' = outcome
          /\ calls' = calls
          /\ sheet_cache' = sheet_cache
          /\ IFD_BLACKLIST_IDS' = IFD_BLACKLIST_IDS
  /\ UNCHANGED <<module, sheet_url, envVars, user_id,
                 user_info, groups, instant_dismissals, red_flags,
                 activity_flags, friend_count, report, ruleLog, fetchVars,
                 true_total>>

\* fetch_live_blacklist called on its own, in either module
CallFetchLiveBlacklist ==
  /\ pc = "sheet_call"
  /\ LET res == fetch_live_blacklist(sheet_url, module, sheet_source,
                                     sheet_cache)
     IN /\ calls' = IF res.requested THEN Called("sheet") ELSE calls
        /\ sheet_cache' = res.cache
        /\ IF res.raised
           THEN new_ids' = new_ids /\ Finish("EXCEPTION")
           ELSE new_ids' = res.ids /\ pc' = "sheet_ret" /\ outcome' = outcome
  /\ UNCHANGED <<module, sheet_url, IFD_BLACKLIST_IDS, envVars, user_id,
                 user_info, groups, temp_ifd, instant_dismissals, red_flags,
                 activity_flags, friend_count, report, ruleLog, fetchVars,
                 true_total>>

\* ------------------------------------------------------------------------
\* The run: the instant-dismissal rules
\* ------------------------------------------------------------------------

\* where the run goes after the account-age rule: on to the username rule,
\* whether or not the rule dismissed
AfterAgeShortCircuit(dismissed) == IF dismissed THEN "decide" ELSE "username"

AfterAge(dismissed) == "username"

\* check_account_age, and the append of its reason; the ValueError it lets
\* through ends the run with an unhandled exception
CheckAge ==
  /\ pc = "age"
  /\ LET res == check_account_age(user_info[1]) IN
       IF res.raised
       THEN /\ Finish("EXCEPTION")
            /\ instant_dismissals' = instant_dismissals
       ELSE /\ instant_dismissals' =
                 IF res.dismissed THEN Append(instant_dismissals, res.reason)
                 ELSE instant_dismissals
            /\ pc' = AfterAge(res.dismissed)
            /\ outcome' = outcome
  /\ ruleLog' = Append(ruleLog, "age")
  /\ UNCHANGED <<module, sheet_url, IFD_BLACKLIST_IDS, envVars, sheet_cache, user_id, user_info,
                 groups, temp_ifd, new_ids, red_flags, activity_flags, friend_count,
                 report, fetchVars, true_total, calls>>

\* check_username, and the appends of its two results
CheckUsername ==
  /\ pc = "username"
  /\ \E res \in check_username(user_info[1], module) :
       /\ instant_dismissals' =
            IF res.dismissal # None THEN Append(instant_dismissals, res.dismissal[1])
            ELSE instant_dismissals
       /\ red_flags' =
            IF res.flag # None THEN Append(red_flags, res.flag[1]) ELSE red_flags
  /\ ruleLog' = Append(ruleLog, "username")
  /\ pc' = IF module = "cli" THEN "get_groups" ELSE "blacklist"
  /\ UNCHANGED <<module, outcome, sheet_url, IFD_BLACKLIST_IDS, envVars, sheet_cache, user_id,
                 user_info, groups, temp_ifd, new_ids, activity_flags, friend_count,
                 report, fetchVars, true_total, calls>>

\* the blacklist the rule is given: the run's merged copy in app.py, the
\* module-level set in verification.py
BlacklistUsed == IF module = "app" THEN temp_ifd ELSE IFD_BLACKLIST_IDS

\* instant_dismissals.extend(check_blacklists(...))
CheckBlacklists ==
  /\ pc = "blacklist"
  /\ instant_dismissals' =
       instant_dismissals \o check_blacklists(user_id[1], groups[1], BlacklistUsed)
  /\ ruleLog' = Append(ruleLog, "blacklist")
  /\ pc' = "decide"
  /\ UNCHANGED <<module, outcome, sheet_url, IFD_BLACKLIST_IDS, envVars, sheet_cache, user_id,
                 user_info, groups, temp_ifd, new_ids, red_flags, activity_flags,
                 friend_count, report, fetchVars, true_total, calls>>

\* the FINAL REPORT verification.py prints: the user, the status and the
\* reasons of that status
PrintedReport(status, dismissals, flags) ==
  [username |-> user_info[1].name,
   status |-> status,
   instant_dismissals |-> dismissals,
   red_flags |-> flags]

\* "if instant_dismissals:" -- the early dismissal: verification.py prints its
\* report and returns; app.py, which has fetched the avatar for its summary,
\* shows the reasons and calls st.stop(), so that nothing below it runs
Decide ==
  /\ pc = "decide"
  /\ calls' = IF module = "app" THEN Called("avatar") ELSE calls
  /\ IF instant_dismissals # <<>>
     THEN /\ Finish("DISMISSED_INSTANT")
          /\ report' =
               IF module = "cli"
               THEN Append(report, PrintedReport("DISMISSED_INSTANT",
                                                 instant_dismissals, <<>>))
               ELSE report
     ELSE /\ pc' = "social"
          /\ outcome' = outcome
          /\ report' = report
  /\ UNCHANGED <<module, sheet_url, IFD_BLACKLIST_IDS, envVars, sheet_cache, user_id, user_info,
                 groups, temp_ifd, new_ids, instant_dismissals, red_flags,
                 activity_flags, friend_count, ruleLog, fetchVars,
                 true_total>>

\* ------------------------------------------------------------------------
\* The paginated badge fetchers
\* ------------------------------------------------------------------------

\* "cursor = data.get('nextPageCursor')", with 'or ""' in app.py
NextCursor(cur) == IF module = "app" /\ ~Truthy(cur) THEN Some("") ELSE cur

\* one turn of get_total_badge_count's loop: the page request (newest
\* first), the count of its items, the threshold test and the cursor test
CountPage ==
  /\ pc = "count_loop"
  /\ \E r \in Responses :
       /\ resp' = Append(resp, r)
       /\ IF ~r.ok \/ r.n = 0
          THEN \* RequestException, or an empty page: break; return total_badges
               /\ total_badges' = total_badges
               /\ cursor' = cursor
               /\ badge_count' = total_badges
               /\ pc' = "count_ret"
          ELSE /\ total_badges' = AddPage(total_badges, r.n)
               /\ IF ThresholdMet(total_badges', pass_threshold)
                  THEN /\ cursor' = cursor
                       /\ badge_count' = total_badges'
                       /\ pc' = "count_ret"
                  ELSE /\ cursor' = NextCursor(r.cur)
                       /\ IF Truthy(cursor')
                          THEN badge_count' = badge_count /\ pc' = "count_loop"
                          ELSE badge_count' = total_badges' /\ pc' = "count_ret"
  /\ calls' = Called("badges_desc")
  /\ UNCHANGED <<runVars, pass_threshold, total_limit, badges, oldest_badges,
                 site, true_total>>

\* one turn of get_oldest_badges' loop: the test of the while, the page
\* request (oldest first), the extend and the cursor test; leaving the loop
\* returns badges[:total_limit]
OldestPage ==
  /\ pc = "oldest_loop"
  /\ IF Len(badges) < total_limit
     THEN /\ \E r \in Responses :
               /\ resp' = Append(resp, r)
               /\ IF ~r.ok \/ r.n = 0
                  THEN /\ badges' = AfterBreak(badges)
                       /\ cursor' = cursor
                       /\ pc' = "oldest_ret"
                  ELSE /\ badges' = Extend(badges, PageItems(Len(badges), r.n))
                       /\ cursor' = NextCursor(r.cur)
                       /\ pc' = IF Truthy(cursor') THEN "oldest_loop" ELSE "oldest_ret"
          /\ calls' = Called("badges_asc")
     ELSE /\ badges' = badges
          /\ cursor' = cursor
          /\ resp' = resp
          /\ pc' = "oldest_ret"
          /\ calls' = calls
  /\ oldest_badges' =
       IF pc' = "oldest_ret" THEN Truncate(badges', total_limit) ELSE oldest_badges
  /\ UNCHANGED <<runVars, pass_threshold, total_badges, badge_count,
                 total_limit, site, true_total>>

\* ------------------------------------------------------------------------
\* The run: the social-activity rule, the final evaluation, the report
\* ------------------------------------------------------------------------

\* check_social_activity up to its call of get_total_badge_count: the friend
\* count request, the friend flag and the group flag
SocialStart ==
  /\ pc = "social"
  /\ \E r \in {None} \cup {Some(n) : n \in FriendCounts} :
       /\ friend_count' = r
       /\ activity_flags' = FriendFlags(r) \o GroupFlags(groups[1])
  /\ calls' = Called("friends")
  /\ ruleLog' = Append(ruleLog, "social")
  /\ pass_threshold' = MIN_BADGE_COUNT
  /\ total_badges' = 0
  /\ cursor' = Some("")
  /\ resp' = <<>>
  /\ site' = "social"
  /\ pc' = "count_loop"
  /\ UNCHANGED <<module, outcome, sheet_url, IFD_BLACKLIST_IDS, envVars, sheet_cache, user_id,
                 user_info, groups, temp_ifd, new_ids, instant_dismissals, red_flags,
                 report, badge_count, total_limit, badges, oldest_badges,
                 true_total>>

\* check_social_activity between its two fetchers: the badge-count flag and
\* the call of get_oldest_badges
SocialBadgeCount ==
  /\ pc = "count_ret"
  /\ site = "social"
  /\ activity_flags' = activity_flags \o BadgeFlags(badge_count)
  /\ total_limit' = OLDEST_BADGES_TO_CHECK
  /\ badges' = <<>>
  /\ cursor' = Some("")
  /\ resp' = <<>>
  /\ total_badges' = 0
  /\ pc' = "oldest_loop"
  /\ UNCHANGED <<module, outcome, sheet_url, IFD_BLACKLIST_IDS, envVars, sheet_cache, user_id,
                 user_info, groups, temp_ifd, new_ids, instant_dismissals, red_flags,
                 friend_count, report, ruleLog, pass_threshold, badge_count,
                 oldest_badges, site, true_total, calls>>

\* the end of check_social_activity (the affiliated-badge flag),
\* red_flags.extend(activity_flags) and the final evaluation; verification.py
\* prints its report and ends here, app.py goes on to fetch the badges it
\* displays
FinalEvaluation ==
  /\ pc = "oldest_ret"
  /\ site = "social"
  /\ activity_flags' = activity_flags \o BaBadgeFlags(oldest_badges)
  /\ red_flags' = red_flags \o activity_flags'
  /\ outcome' = FinalStatus(red_flags')
  /\ resp' = IF module = "app" THEN <<>> ELSE resp
  /\ badges' = <<>>
  /\ cursor' = Some("")
  /\ IF module = "app"
     THEN /\ total_limit' = DISPLAY_BADGES
          /\ site' = "display"
          /\ pc' = "oldest_loop"
          /\ report' = report
     ELSE /\ total_limit' = total_limit
          /\ site' = "none"
          /\ pc' = "done"
          /\ report' = Append(report, PrintedReport(outcome', <<>>, red_flags'))
  /\ UNCHANGED <<module, sheet_url, IFD_BLACKLIST_IDS, envVars, sheet_cache, user_id, user_info,
                 groups, temp_ifd, new_ids, instant_dismissals, friend_count,
                 ruleLog, pass_threshold, total_badges, badge_count,
                 oldest_badges, true_total, calls>>

\* the report app.py builds for the download button; get_friend_count is
\* answered from st.cache_data with the value of the social-activity rule
MakeReport ==
  [user_id |-> user_id[1],
   username |-> user_info[1].name,
   instant_dismissals |-> instant_dismissals,
   red_flags |-> red_flags,
   groups_count |-> Len(groups[1]),
   friend_count |-> friend_count]

BuildReport ==
  /\ pc = "oldest_ret"
  /\ site = "display"
  /\ report' = Append(report, MakeReport)
  /\ resp' = <<>>
  /\ badges' = <<>>
  /\ site' = "none"
  /\ pc' = "done"
  /\ UNCHANGED <<module, outcome, sheet_url, IFD_BLACKLIST_IDS, envVars, sheet_cache, user_id,
                 user_info, groups, temp_ifd, new_ids, instant_dismissals, red_flags,
                 activity_flags, friend_count, ruleLog, pass_threshold,
                 total_badges, badge_count, total_limit, oldest_badges, cursor,
                 true_total, calls>>

\* ------------------------------------------------------------------------
\* Specifications
\* ------------------------------------------------------------------------

Next ==
  \/ Lookup
  \/ GetUserInfo
  \/ GetUserGroups
  \/ MergeBlacklist
  \/ CheckAge
  \/ CheckUsername
  \/ CheckBlacklists
  \/ Decide
  \/ SocialStart
  \/ CountPage
  \/ SocialBadgeCount
  \/ OldestPage
  \/ FinalEvaluation
  \/ BuildReport

\* one verification run of app.py or of verification.py
Spec == Init /\ [][Next]_vars

\* the parameters the fetchers are called with on their own
Thresholds == {1, SmallPage, page_limit, page_limit + 1, MIN_BADGE_COUNT}

Limits == {0, 1, OLDEST_BADGES_TO_CHECK, page_limit, page_limit + SmallPage}

InitFetch ==
  /\ Fresh
  /\ ProcessStart
  /\ module \in {"app", "cli"}
  /\ sheet_url = <<>>
  /\ sheet_source = None
  /\ true_total \in TrueTotals
  /\ site = "direct"
  /\ \/ pc = "count_loop" /\ pass_threshold \in Thresholds /\ total_limit = 0
     \/ pc = "oldest_loop" /\ total_limit \in Limits /\ pass_threshold = 0

NextFetch == CountPage \/ OldestPage

\* get_total_badge_count and get_oldest_badges, each called on its own with
\* any threshold or sample size, against any behaviour of the endpoint
FetchSpec == InitFetch /\ [][NextFetch]_vars

\* the same calls, run to their end: a fetcher is sequential code, so its
\* loop takes its next turn whenever it has one, each request being answered
\* by a page or by a failure
FetchLive == FetchSpec /\ WF_vars(NextFetch)

\* the state in front of the blacklist rule, for any user, any membership
\* list and a merged blacklist with or without supplementary IDs, the two
\* earlier rules having produced nothing
InitRules ==
  /\ module \in {"app", "cli"}
  /\ pc = "blacklist"
  /\ outcome = "none"
  /\ sheet_url = <<>>
  /\ sheet_source = None
  /\ sheet_cache = <<>>
  /\ FRIENDLY_OWNER_IDS \in FriendlyLists
  /\ IFD_BLACKLIST_IDS = ConfigIFD
  /\ user_id \in {Some(i) : i \in UserIds}
  /\ user_info = Some([created |-> Created("iso", 6 * MIN_ACCOUNT_AGE_DAYS),
                        name |-> N_clean])
  /\ groups \in {Some(g) : g \in Memberships}
  /\ new_ids \in (IF module = "app" THEN {{}, BA_BLACKLIST_IDS} ELSE {{}})
  /\ temp_ifd = (IF module = "app" THEN Merged(IFD_BLACKLIST_IDS, new_ids) ELSE {})
  /\ instant_dismissals = <<>>
  /\ red_flags = <<>>
  /\ activity_flags = <<>>
  /\ friend_count = None
  /\ report = <<>>
  /\ pass_threshold = 0
  /\ total_badges = 0
  /\ badge_count = 0
  /\ total_limit = 0
  /\ badges = <<>>
  /\ oldest_badges = <<>>
  /\ cursor = Some("")
  /\ site = "none"
  /\ true_total = MIN_BADGE_COUNT
  /\ resp = <<>>
  /\ ruleLog = <<"age", "username">>
  /\ calls = [e \in Endpoints |-> 0]

NextRules == CheckBlacklists

\* check_blacklists run alone on any user and membership list
RuleSpec == InitRules /\ [][NextRules]_vars

\* the membership lists of the users the social checks are run for on their
\* own: below and at the group threshold, with and without the official
\* group
SocialGroupLists ==
  {pre \o Filler(k) : pre \in {<<>>, <<G_official>>},
                      k \in {MIN_NON_BA_GROUP_COUNT - 1, MIN_NON_BA_GROUP_COUNT}}

\* the state in front of check_social_activity: a run that has passed its
\* instant checks, for a user with any true number of badges
InitSocial ==
  /\ module \in {"app", "cli"}
  /\ pc = "social"
  /\ outcome = "none"
  /\ sheet_url = <<>>
  /\ sheet_source = None
  /\ sheet_cache = <<>>
  /\ FRIENDLY_OWNER_IDS = ConfigFriendly
  /\ IFD_BLACKLIST_IDS = ConfigIFD
  /\ user_id = Some(10)
  /\ user_info = Some([created |-> Created("iso", 6 * MIN_ACCOUNT_AGE_DAYS),
                        name |-> N_clean])
  /\ groups \in {Some(g) : g \in SocialGroupLists}
  /\ new_ids = {}
  /\ temp_ifd = (IF module = "app" THEN IFD_BLACKLIST_IDS ELSE {})
  /\ instant_dismissals = <<>>
  /\ red_flags = <<>>
  /\ activity_flags = <<>>
  /\ friend_count = None
  /\ report = <<>>
  /\ pass_threshold = 0
  /\ total_badges = 0
  /\ badge_count = 0
  /\ total_limit = 0
  /\ badges = <<>>
  /\ oldest_badges = <<>>
  /\ cursor = Some("")
  /\ site = "none"
  /\ true_total \in TrueTotals
  /\ resp = <<>>
  /\ ruleLog = <<"age", "username", "blacklist">>
  /\ calls = [e \in Endpoints |->
                IF e \in {"lookup", "profile", "groups"} \/ (e = "avatar" /\ module = "app")
                THEN 1 ELSE 0]

NextSocial ==
  \/ SocialStart
  \/ CountPage
  \/ SocialBadgeCount
  \/ OldestPage
  \/ FinalEvaluation
  \/ BuildReport

\* the social checks, the final evaluation and the report of a run that has
\* passed its instant checks, against any behaviour of the endpoints
SocialSpec == InitSocial /\ [][NextSocial]_vars

\* the next run of the same Streamlit process, started when the run has
\* ended or, its early decision made, is abandoned for a new one: Streamlit
\* executes the script again from its first line, so the configuration is
\* loaded again and every variable of the script is new; what st.cache_data
\* has stored survives.  The URL of the sidebar may have been edited and the
\* sheet may have changed.
NextRun ==
  /\ module = "app"
  /\ pc \in {"done", "social"}
  /\ outcome' = "none"
  /\ IFD_BLACKLIST_IDS' = ConfigIFD
  /\ user_id' = None
  /\ user_info' = None
  /\ groups' = None
  /\ temp_ifd' = {}
  /\ new_ids' = {}
  /\ instant_dismissals' = <<>>
  /\ red_flags' = <<>>
  /\ activity_flags' = <<>>
  /\ friend_count' = None
  /\ report' = <<>>
  /\ total_badges' = 0
  /\ badge_count' = 0
  /\ badges' = <<>>
  /\ oldest_badges' = <<>>
  /\ cursor' = Some("")
  /\ resp' = <<>>
  /\ ruleLog' = <<>>
  /\ calls' = [e \in Endpoints |-> 0]
  /\ pc' = "lookup"
  /\ site' = "none"
  /\ pass_threshold' = 0
  /\ total_limit' = 0
  /\ sheet_url' \in SheetUrls
  /\ sheet_source' \in (IF HostTrusted(sheet_url') THEN Sources ELSE {None})
  /\ UNCHANGED <<module, FRIENDLY_OWNER_IDS, sheet_cache, true_total>>

InitSession == Init /\ module = "app"

NextSession ==
  \/ Lookup
  \/ GetUserInfo
  \/ GetUserGroups
  \/ MergeBlacklist
  \/ CheckAge
  \/ CheckUsername
  \/ CheckBlacklists
  \/ Decide
  \/ NextRun

\* the runs of one app.py process up to their early decision, one after the
\* other, each for any user
SessionSpec == InitSession /\ [][NextSession]_vars

\* the call of fetch_live_blacklist on its own: any URL, any answer of the
\* sheet's host and, in app.py, a st.cache_data store that is empty or holds
\* what an earlier call has stored
InitSheet ==
  /\ Fresh
  /\ FRIENDLY_OWNER_IDS = ConfigFriendly
  /\ pc = "sheet_call"
  /\ site = "none"
  /\ pass_threshold = 0
  /\ total_limit = 0
  /\ true_total = MIN_BADGE_COUNT
  /\ module \in {"app", "cli"}
  /\ sheet_url \in CallUrls
  /\ sheet_source \in Sources
  /\ sheet_cache \in
       IF module = "app"
       THEN {<<>>} \cup
            {fetch_live_blacklist(u, "app", src, <<>>).cache :
               u \in CallUrls,
               src \in {x \in Sources : x = None \/ ~ParseRaises(x[1])}}
       ELSE {<<>>}

NextSheet == CallFetchLiveBlacklist

SheetSpec == InitSheet /\ [][NextSheet]_vars

\* ------------------------------------------------------------------------
\* Properties
\* ------------------------------------------------------------------------

IsPrefix(a, b) == Len(a) <= Len(b) /\ SubSeq(b, 1, Len(a)) = a

\* the run has taken its decision after the three instant-dismissal rules
PastInstantChecks ==
  \/ pc \in {"decide", "social"}
  \/ outcome \in {"DISMISSED_INSTANT", "DISMISSED", "VERIFIED"}
  \/ site \in {"social", "display"}

\* no request of the social-activity rule has been issued
NoSocialRequest ==
  calls["friends"] = 0 /\ calls["badges_desc"] = 0 /\ calls["badges_asc"] = 0

C2_InstantDismissalSkipsSocial ==
  instant_dismissals # <<>> =>
    /\ NoSocialRequest
    /\ pc = "done" => outcome = "DISMISSED_INSTANT"

\* the rule a reason comes from: 1 account age, 2 username, 3 blacklist/group
ReasonRank(r) ==
  IF r.kind \in {"age_unverifiable", "age_unparsable", "age_under"} THEN 1
  ELSE IF r.kind \in {"alt", "impersonation", "nsfw"} THEN 2
  ELSE 3

RanksOf(list) == [i \in 1..Len(list) |-> ReasonRank(list[i])]

\* the reasons of rank k, in their order in the list
RECURSIVE OfRank(_, _)
OfRank(list, k) ==
  IF list = <<>> THEN <<>>
  ELSE (IF ReasonRank(Head(list)) = k THEN <<Head(list)>> ELSE <<>>)
       \o OfRank(Tail(list), k)

C4_FetchErrorBeforeRules ==
  outcome = "FETCH_ERROR" => ruleLog = <<>> /\ instant_dismissals = <<>>

\* C5: every run ends in one of NOT_FOUND, FETCH_ERROR, DISMISSED (instant),
\* DISMISSED (red flags), VERIFIED, each reached by its path of the state
\* machine (a fetch error before the instant checks, an instant dismissal
\* after the three instant rules, a final status after the social checks); a
\* run whose lookup yields no ID ends NOT_FOUND, having issued no profile,
\* group, friend or badge request and recorded no reason or flag.
C5_TerminalOutcomes ==
  /\ (pc # "lookup" /\ user_id = None /\ site # "direct") =>
       pc = "done" /\ outcome = "NOT_FOUND"
  /\ pc = "done" =>
       /\ outcome \in {"NOT_FOUND", "FETCH_ERROR", "DISMISSED_INSTANT",
                       "DISMISSED", "VERIFIED"}
       /\ outcome = "NOT_FOUND" =>
            /\ user_id = None
            /\ calls["profile"] = 0 /\ calls["groups"] = 0 /\ NoSocialRequest
            /\ instant_dismissals = <<>> /\ red_flags = <<>> /\ ruleLog = <<>>
       /\ outcome = "FETCH_ERROR" =>
            (user_info = None \/ groups = None) /\ ruleLog = <<>>
       /\ outcome = "DISMISSED_INSTANT" =>
            ruleLog = <<"age", "username", "blacklist">>
       /\ outcome \in {"DISMISSED", "VERIFIED"} =>
            ruleLog = <<"age", "username", "blacklist", "social">>

\* C6: a run that reaches a decision has constructed exactly one report, whose
\* instant-dismissal reasons and red flags are the lists the rules accumulated.
C6_OneReportPerDecision ==
  (pc = "done" /\ outcome \in {"DISMISSED_INSTANT", "DISMISSED", "VERIFIED"}) =>
    /\ Len(report) = 1
    /\ report[1].instant_dismissals = instant_dismissals
    /\ report[1].red_flags = red_flags

\* ------------------------------------------------------------------------
\* Properties of the paginated fetchers
\* ------------------------------------------------------------------------

\* the sizes of the pages received (a failed request delivers no page)
PageSizesOf(log) == [i \in 1..Len(log) |-> IF log[i].ok THEN log[i].n ELSE 0]

\* the number of items received with the first k responses
ReceivedUpTo(log, k) == SumSeq(SubSeq(PageSizesOf(log), 1, k))

Received(log) == ReceivedUpTo(log, Len(log))

\* every page received is a full page
AllFull(log) == \A i \in 1..Len(log) : log[i].ok => log[i].n = page_limit

\* some request failed
SomeFailure(log) == \E i \in 1..Len(log) : ~log[i].ok

\* ceil(a / b)
CeilDiv(a, b) == (a + b - 1) \div b

InCount == pc \in {"count_loop", "count_ret"}

\* C7: get_total_badge_count issues every page request with a running total
\* below passThreshold, returns in the step in which the total reaches it,
\* and issues at most ceil(passThreshold / 100) requests when every page it
\* receives is full.
C7_CountStopsAtThreshold ==
  InCount =>
    /\ \A k \in 1..Len(resp) : ReceivedUpTo(resp, k - 1) < pass_threshold
    /\ pc = "count_loop" => Received(resp) < pass_threshold
    /\ (pc = "count_ret" /\ Received(resp) >= pass_threshold) =>
         badge_count >= pass_threshold
    /\ AllFull(resp) => Len(resp) <= CeilDiv(pass_threshold, page_limit)

\* the threshold is passed by the second of two full pages
C7_Witness ==
  /\ pc = "count_ret"
  /\ Len(resp) = 2
  /\ AllFull(resp) /\ ~SomeFailure(resp)
  /\ badge_count > pass_threshold

\* a cursor that announces a further page
MorePages(cur) == cur # None /\ cur # Some("")

\* the responses are those of an endpoint that serves a user with `total`
\* badges: full pages while they last, a cursor exactly when badges remain
Honest(log, total) ==
  \A k \in 1..Len(log) :
    log[k].ok =>
      /\ log[k].n = Min(page_limit, total - ReceivedUpTo(log, k - 1))
      /\ MorePages(log[k].cur) <=> (total - ReceivedUpTo(log, k) > 0)

\* C8 as stated: whenever the true badge total is at least passThreshold,
\* get_total_badge_count returns passThreshold or more.
C8_CountMeetsThreshold ==
  (pc = "count_ret" /\ Honest(resp, true_total) /\ true_total >= pass_threshold) =>
    badge_count >= pass_threshold

\* C8 amended: whenever the true badge total is at least passThreshold and no
\* page request fails, get_total_badge_count returns passThreshold or more.
C8_CountMeetsThresholdNoFailure ==
  (/\ pc = "count_ret"
   /\ Honest(resp, true_total)
   /\ ~SomeFailure(resp)
   /\ true_total >= pass_threshold) =>
    badge_count >= pass_threshold

\* an honest count over several pages without failure
C8_Witness ==
  /\ pc = "count_ret"
  /\ Honest(resp, true_total)
  /\ ~SomeFailure(resp)
  /\ true_total > pass_threshold
  /\ Len(resp) >= 3
  /\ badge_count >= pass_threshold

\* C9: get_total_badge_count never raises, and returns the sum of the sizes of
\* the pages it received: all of them when the collection is exhausted, the k
\* successful ones when the request after them fails (0 when the first fails).
C9_CountReturnsPartialTotal ==
  /\ InCount => outcome # "EXCEPTION"
  /\ pc = "count_ret" =>
       /\ badge_count = Received(resp)
       /\ \A k \in 1..Len(resp) : ~resp[k].ok => k = Len(resp)
       /\ ~resp[1].ok => badge_count = 0

\* two pages counted, then the third request fails
C9_Witness ==
  /\ pc = "count_ret"
  /\ Len(resp) = 3
  /\ ~resp[3].ok
  /\ badge_count = SmallPage + page_limit

\* the items received, in request order
RECURSIVE ReceivedItems(_, _)
ReceivedItems(log, k) ==
  IF k = 0 THEN <<>>
  ELSE ReceivedItems(log, k - 1)
       \o (IF log[k].ok THEN PageItems(ReceivedUpTo(log, k - 1), log[k].n) ELSE <<>>)

\* C10: get_oldest_badges returns at most sampleSize items, and they are a
\* prefix of the concatenation of the pages received, in request order.
C10_OldestIsBoundedPrefix ==
  pc = "oldest_ret" =>
    /\ Len(oldest_badges) <= total_limit
    /\ IsPrefix(oldest_badges, ReceivedItems(resp, Len(resp)))
    /\ Len(oldest_badges) = Min(total_limit, Received(resp))

\* the second page overshoots the sample size and is cut
C10_Witness ==
  /\ pc = "oldest_ret"
  /\ Len(resp) = 2
  /\ Received(resp) > total_limit
  /\ ReceivedUpTo(resp, 1) < total_limit
  /\ Len(oldest_badges) = total_limit

InOldest == pc \in {"oldest_loop", "oldest_ret"}

C12_OldestReturnsPartialSample ==
  /\ InOldest => outcome # "EXCEPTION"
  /\ pc = "oldest_loop" => ~SomeFailure(resp)
  /\ pc = "oldest_ret" =>
       /\ \A k \in 1..Len(resp) : ~resp[k].ok => k = Len(resp)
       /\ (resp # <<>> /\ ~resp[1].ok) => oldest_badges = <<>>
       /\ (resp # <<>> /\ ~resp[Len(resp)].ok) =>
            LET items == ReceivedItems(resp, Len(resp) - 1)
            IN oldest_badges = SubSeq(items, 1, Min(total_limit, Len(items)))

\* one page received, then the second request fails
C12_Witness ==
  /\ pc = "oldest_ret"
  /\ Len(resp) = 2
  /\ resp[1].ok
  /\ ~resp[2].ok
  /\ Len(oldest_badges) = SmallPage

\* the fetcher called has returned
Returned == pc \in {"count_ret", "oldest_ret"}

\* every request but the first follows a non-empty page whose cursor
\* announced a further page
RequestsFollowCursor ==
  \A k \in 1..Len(resp) :
    (k < Len(resp) \/ ~Returned) =>
      resp[k].ok /\ resp[k].n > 0 /\ MorePages(resp[k].cur)

\* every request is issued below the sample size (get_oldest_badges) or the
\* threshold (get_total_badge_count)
RequestsBelowTarget ==
  \A k \in 1..Len(resp) :
    ReceivedUpTo(resp, k - 1) < (IF InOldest THEN total_limit ELSE pass_threshold)

\* C13: both paginated operations terminate whatever the badge endpoint
\* answers, also when it serves non-empty pages with a cursor forever:
\* get_oldest_badges requests nothing once it holds sampleSize items,
\* get_total_badge_count nothing once the total reaches passThreshold, and an
\* absent or empty cursor ends the pagination after the current page.
C13_FetchersTerminate ==
  /\ <>Returned
  /\ [](RequestsFollowCursor /\ RequestsBelowTarget)

\* a count that returned although each of its pages announced a further one
C13_Witness ==
  /\ pc = "count_ret"
  /\ Len(resp) = 3
  /\ \A k \in 1..3 : resp[k].ok /\ resp[k].n = page_limit /\ resp[k].cur = Some("tok")

\* ------------------------------------------------------------------------
\* Properties of the rules
\* ------------------------------------------------------------------------

\* the profile's creation timestamp is present and parsable
Parsable(created) == created.fmt \in {"iso", "isoZ"}

AgeKinds == {"age_unverifiable", "age_unparsable", "age_under"}

\* C14: for a parsable creation timestamp, check_account_age yields an instant
\* dismissal exactly when the elapsed whole days are below 60, with the day
\* count in the reason; from 60 days on (60 included) it adds no dismissal
\* reason, and it never adds a red flag.
C14_AgeBoundary ==
  (user_info # None /\ ruleLog # <<>> /\ Parsable(user_info[1].created)) =>
    LET days_old == user_info[1].created.days IN
    /\ days_old < MIN_ACCOUNT_AGE_DAYS =>
         OfRank(instant_dismissals, 1) = <<Reason("age_under", days_old, <<>>)>>
    /\ days_old >= MIN_ACCOUNT_AGE_DAYS => OfRank(instant_dismissals, 1) = <<>>
    /\ pc = "username" => red_flags = <<>>
    /\ \A i \in 1..Len(red_flags) : red_flags[i].kind \notin AgeKinds

\* an account of exactly 60 days passes the rule and is verified
C14_Witness ==
  /\ pc = "done"
  /\ outcome = "VERIFIED"
  /\ user_info[1].created.days = MIN_ACCOUNT_AGE_DAYS
  /\ instant_dismissals = <<>>

\* C15: for a profile whose creation timestamp is absent or unparsable, with
\* or without a 'Z' in it, check_account_age yields an instant dismissal with
\* an unverifiable-age reason and no exception leaves the rule; the run ends
\* DISMISSED (stated for the runs that do not end in a fetch error).
C15_UnverifiableAgeDismisses ==
  (user_info # None /\ ruleLog # <<>> /\ ~Parsable(user_info[1].created)) =>
    /\ outcome # "EXCEPTION"
    /\ Len(OfRank(instant_dismissals, 1)) = 1
    /\ OfRank(instant_dismissals, 1)[1].kind \in {"age_unverifiable", "age_unparsable"}
    /\ (pc = "done" /\ outcome # "FETCH_ERROR") => outcome = "DISMISSED_INSTANT"

\* the username rule has been evaluated
UsernameRuleRan == user_info # None /\ Len(ruleLog) >= 2

\* the three username conditions: the 'alt' substring, the exact
\* case-insensitive match of a configured impersonation entry, an NSFW word
MatchesAlt(name) == Contains(S_alt, Lower(name))

MatchesImpersonation(name) == \E e \in ConfigImpersonation : Lower(e) = Lower(name)

MatchesNsfw(name) == \E w \in NSFW_WORDS : Contains(w, Lower(name))

\* C16: check_username yields at most one instant-dismissal reason and at
\* most one red flag; a username containing 'alt' yields only the 'alt'
\* reason, and a username matching both the impersonation set and an NSFW
\* word yields only the impersonation reason.
C16_UsernamePriority ==
  UsernameRuleRan =>
    LET name == user_info[1].name
        got == OfRank(instant_dismissals, 2)
    IN
    /\ Len(got) <= 1
    /\ pc \in {"get_groups", "blacklist"} => Len(red_flags) <= 1
    /\ MatchesAlt(name) => got = <<Reason("alt", 0, <<>>)>>
    /\ (~MatchesAlt(name) /\ MatchesImpersonation(name) /\ MatchesNsfw(name)) =>
         got = <<Reason("impersonation", 0, <<>>)>>

\* the number of decimal digit characters of a username
DigitCount(name) == Cardinality({i \in 1..Len(name) : name[i] \in Digits})

\* C17: a username that triggers no username dismissal and holds at least 4
\* decimal digits gets a username red flag, which is in the red-flag list the
\* final decision counts.
C17_DigitSpamRedFlag ==
  (/\ UsernameRuleRan
   /\ ~MatchesAlt(user_info[1].name)
   /\ ~MatchesImpersonation(user_info[1].name)
   /\ ~MatchesNsfw(user_info[1].name)
   /\ DigitCount(user_info[1].name) >= USERNAME_DIGIT_THRESHOLD) =>
    \E i \in 1..Len(red_flags) : red_flags[i].kind = "digit_spam"

\* C18: in both programs, a username that equals a configured impersonation
\* entry up to letter case, and does not contain 'alt', gets the
\* impersonation dismissal from check_username.
C18_ImpersonationIgnoresCase ==
  (/\ UsernameRuleRan
   /\ MatchesImpersonation(user_info[1].name)
   /\ ~MatchesAlt(user_info[1].name)) =>
    OfRank(instant_dismissals, 2) = <<Reason("impersonation", 0, <<>>)>>

\* the two conditions of a group membership
IsBlacklistedGroup(g) == g.id \in BLACKLISTED_GROUP_IDS

IsUnauthorizedAffiliate(g) ==
  /\ Contains(S_british_army, Lower(g.name))
  /\ g.id \notin BA_UK_GROUP_IDS
  /\ (g.owner = None \/ g.owner[1] \notin FRIENDLY_OWNER_IDS)

Count(b) == IF b THEN 1 ELSE 0

\* the number of conditions of check_blacklists that hold
RECURSIVE GroupConditions(_)
GroupConditions(gs) ==
  IF gs = <<>> THEN 0
  ELSE Count(IsBlacklistedGroup(Head(gs))) + Count(IsUnauthorizedAffiliate(Head(gs)))
       + GroupConditions(Tail(gs))

SatisfiedConditions ==
  Count(user_id[1] \in BlacklistUsed) + Count(user_id[1] \in BA_BLACKLIST_IDS)
  + GroupConditions(groups[1])

\* the reasons of one kind in a list
OfKind(list, kind) == {i \in 1..Len(list) : list[i].kind = kind}

\* C19: check_blacklists never exits early: its result holds one reason for
\* the merged blacklist, one for the secondary blacklist and, for every
\* membership, one if the group is blacklisted and one if it is an
\* unauthorized affiliate, each naming its group; the number of reasons is
\* the number of conditions that hold.
C19_BlacklistsNoEarlyExit ==
  pc = "decide" =>
    LET got == instant_dismissals
        gs == groups[1]
    IN
    /\ Len(got) = SatisfiedConditions
    /\ Cardinality(OfKind(got, "ifd_blacklist")) = Count(user_id[1] \in BlacklistUsed)
    /\ Cardinality(OfKind(got, "ba_blacklist")) = Count(user_id[1] \in BA_BLACKLIST_IDS)
    /\ Cardinality(OfKind(got, "blacklisted_group")) =
         Cardinality({i \in 1..Len(gs) : IsBlacklistedGroup(gs[i])})
    /\ Cardinality(OfKind(got, "other_ba_group")) =
         Cardinality({i \in 1..Len(gs) : IsUnauthorizedAffiliate(gs[i])})
    /\ \A i \in 1..Len(gs) :
         /\ IsBlacklistedGroup(gs[i]) =>
              \E k \in OfKind(got, "blacklisted_group") : got[k].txt = gs[i].name
         /\ IsUnauthorizedAffiliate(gs[i]) =>
              \E k \in OfKind(got, "other_ba_group") : got[k].txt = gs[i].name

\* two unauthorized affiliates in one membership list, two distinct reasons
C19_Witness ==
  /\ pc = "decide"
  /\ Len(groups[1]) = 2
  /\ \A i \in 1..2 : IsUnauthorizedAffiliate(groups[1][i])
                     /\ ~IsBlacklistedGroup(groups[1][i])
  /\ Len(instant_dismissals) = 2
  /\ instant_dismissals[1].kind = "other_ba_group"
  /\ instant_dismissals[2].kind = "other_ba_group"
  /\ instant_dismissals[1] # instant_dismissals[2]

\* app.py's run has its profile and its groups and is past the merge step
MergeOver ==
  /\ module = "app"
  /\ user_info # None
  /\ groups # None
  /\ pc \notin {"get_groups", "merge"}

\* C20: the merged blacklist of a run is the union of the static blacklist and
\* the supplementary IDs; merging the same IDs again changes nothing; with no
\* supplementary ID (no URL, failed fetch, rejected host, nothing parseable)
\* it equals the static blacklist, which is left as configured; and the run
\* goes from the merge to the instant checks, never into an error.
C20_MergeIsUnion ==
  (MergeOver /\ site # "direct") =>
    /\ pc = "age" \/ ruleLog # <<>>
    /\ temp_ifd = IFD_BLACKLIST_IDS \cup new_ids
    /\ Merged(temp_ifd, new_ids) = temp_ifd
    /\ new_ids = {} => temp_ifd = IFD_BLACKLIST_IDS
    /\ IFD_BLACKLIST_IDS = ConfigIFD

\* the IDs this process has got from supplementary lists so far: what the
\* calls of fetch_live_blacklist have returned
SupplementaryIds == UNION {sheet_cache[u] : u \in DOMAIN sheet_cache}

\* C21: after any sequence of runs, with or without supplementary lists, the
\* static blacklist equals its value at process start; a run that supplies no
\* supplementary list checks exactly the static blacklist, so an ID that
\* entered only through an earlier run's list does not dismiss its user.
C21_StaticBlacklistUnchanged ==
  /\ IFD_BLACKLIST_IDS = ConfigIFD
  /\ (MergeOver /\ sheet_url = <<>>) =>
       /\ temp_ifd = ConfigIFD
       /\ user_id[1] \notin ConfigIFD =>
            OfKind(instant_dismissals, "ifd_blacklist") = {}

\* a run without URL has passed its instant checks for a user whose ID an
\* earlier run of the process had loaded from its sheet
C21_Witness ==
  /\ MergeOver
  /\ sheet_url = <<>>
  /\ user_id[1] \in SupplementaryIds
  /\ user_id[1] \notin ConfigIFD
  /\ pc = "social"
  /\ instant_dismissals = <<>>

\* the supplementary IDs of the text the sheet's host delivers now
LiveIds ==
  IF HostTrusted(sheet_url) /\ sheet_source # None
  THEN ParseIds(sheet_source[1])
  ELSE {}

\* C22: the merged blacklist is never served from a cache: in every run that
\* supplies a URL and gets past the merge, the supplementary IDs merged are
\* those of the text the sheet's host delivers during that run, whatever an
\* earlier run of the process got from the same URL.
C22_MergeIsNeverCached ==
  (/\ MergeOver
   /\ sheet_url # <<>>
   /\ pc = "age" \/ ruleLog # <<>>
   /\ sheet_source = None \/ ~ParseRaises(sheet_source[1])) =>
    /\ new_ids = LiveIds
    /\ temp_ifd = ConfigIFD \cup LiveIds

\* C23: fetch_live_blacklist issues a request only when the URL's host is
\* the trusted domain; for a URL with any other host it returns the empty set
\* and no request has been issued, in app.py and in verification.py.
C23_RequestOnlyToTrustedHost ==
  pc \in {"sheet_call", "sheet_ret"} =>
    /\ calls["sheet"] > 0 => Hostname(sheet_url) = Some(S_docs_google)
    /\ (pc = "sheet_ret" /\ Hostname(sheet_url) # Some(S_docs_google)) =>
         /\ new_ids = {}
         /\ calls["sheet"] = 0

\* ------------------------------------------------------------------------
\* Properties of the social-activity rule
\* ------------------------------------------------------------------------

\* the run has entered check_social_activity
SocialReached == ruleLog # <<>> /\ ruleLog[Len(ruleLog)] = "social"

\* check_social_activity has its badge count and has evaluated it
BadgeCounted == SocialReached /\ pc \notin {"count_loop", "count_ret"}

\* check_social_activity has returned and its sample is still that of the
\* rule (app.py fetches the badges it displays afterwards)
SampleEvaluated ==
  /\ SocialReached
  /\ outcome # "none"
  /\ module = "cli" \/ (site = "display" /\ pc = "oldest_loop")

HasBaBadge(sample) == \E i \in 1..Len(sample) : sample[i] \in BA_BADGE_IDS

\* C24: a failed friend-count, badge-count or oldest-sample request never
\* aborts the run: once in the social checks the run reports nothing but
\* VERIFIED or DISMISSED, has a next step until it has ended, and ends with
\* one of the two; a failed friend count gives exactly one "could not verify"
\* flag, the badge count evaluated is the sum of the pages received, and the
\* sample evaluated is what was received, cut to the sample size.
C24_FetchFailuresNeverAbort ==
  SocialReached =>
    /\ outcome \in {"none", "VERIFIED", "DISMISSED"}
    /\ pc = "done" => outcome # "none"
    /\ pc # "done" => ENABLED Next
    /\ friend_count = None =>
         /\ Cardinality(OfKind(activity_flags, "friends_unverifiable")) = 1
         /\ OfKind(activity_flags, "few_friends") = {}
    /\ (pc = "count_ret" /\ site = "social") => badge_count = Received(resp)
    /\ BadgeCounted =>
         /\ OfKind(activity_flags, "few_badges") # {} <=> badge_count < MIN_BADGE_COUNT
         /\ \A i \in OfKind(activity_flags, "few_badges") :
              activity_flags[i].num = badge_count
    /\ (pc = "oldest_ret" /\ site = "social") =>
         LET items == ReceivedItems(resp, Len(resp))
         IN oldest_badges = SubSeq(items, 1, Min(OLDEST_BADGES_TO_CHECK, Len(items)))
    /\ SampleEvaluated =>
         (OfKind(activity_flags, "ba_badge") # {} <=> HasBaBadge(oldest_badges))

\* verification.py's run has ended with a status although the friend count
\* request failed, the badge count stopped below the user's total and the
\* second request of the oldest sample failed
C24_Witness ==
  /\ module = "cli"
  /\ pc = "done"
  /\ outcome = "DISMISSED"
  /\ friend_count = None
  /\ badge_count = SmallPage
  /\ badge_count < true_total
  /\ Len(resp) = 2
  /\ ~resp[2].ok
  /\ Len(oldest_badges) = SmallPage

\* the account behind the run: its friend counts compatible with what the run
\* saw (any, when the request failed) and the oldest badges of its true total
TrueFriendCounts == IF friend_count = None THEN FriendCounts ELSE {friend_count[1]}

IdealSample == PageItems(0, Min(OLDEST_BADGES_TO_CHECK, true_total))

\* the number of red flags check_social_activity gives the account of the run
\* with f friends when every fetch succeeds
IdealFlagCount(f) ==
  Count(f < MIN_FRIEND_COUNT)
  + Count(NonBaGroupCount(groups[1]) < MIN_NON_BA_GROUP_COUNT)
  + Count(true_total < MIN_BADGE_COUNT)
  + Count(HasBaBadge(IdealSample))

\* check_social_activity is about to return; what the run has counted and
\* sampled comes from the account's badges (the count does not exceed them,
\* the pages of the sample are the account's, failures apart)
SocialReturns == pc = "oldest_ret" /\ site = "social"

SameAccount == badge_count <= true_total /\ Honest(resp, true_total)

\* the final evaluation has at least the flags, and the dismissal, of the
\* run for the same account in which every fetch succeeds
NeverFewerFlags ==
  \A f \in TrueFriendCounts :
    /\ Len(activity_flags') >= IdealFlagCount(f)
    /\ (Len(red_flags) + IdealFlagCount(f) >= RED_FLAG_LIMIT) => outcome' = "DISMISSED"

\* C25 as stated: for the same account data a run in which a friend-count,
\* badge-count or oldest-sample fetch fails never has fewer red flags than the
\* run in which all of them succeed, so a failure never turns DISMISSED into
\* VERIFIED.
C25_DegradedNeverFewerFlags ==
  [][(SocialReturns /\ SameAccount) => NeverFewerFlags]_vars

\* C25, amended: the same, for a run whose friend-count or badge-count fetch
\* fails and whose oldest-sample fetch succeeds.
C25_DegradedNeverFewerFlagsSampleFetched ==
  [][(SocialReturns /\ SameAccount /\ ~SomeFailure(resp)) => NeverFewerFlags]_vars

\* verification.py has dismissed an account with 30 friends, enough groups
\* and 300 badges, one of them affiliated: the friend count request failed
\* and the badge count stopped short, the oldest sample was fetched whole
C25_Witness ==
  /\ module = "cli"
  /\ pc = "done"
  /\ outcome = "DISMISSED"
  /\ friend_count = None
  /\ badge_count < true_total
  /\ true_total = MIN_BADGE_COUNT
  /\ NonBaGroupCount(groups[1]) >= MIN_NON_BA_GROUP_COUNT
  /\ resp # <<>>
  /\ Honest(resp, true_total)
  /\ ~SomeFailure(resp)
  /\ Len(activity_flags) = 3
  /\ IdealFlagCount(MIN_FRIEND_COUNT) = 1

\* the place of a red flag in check_social_activity's order
SocialRank(r) ==
  CASE r.kind \in {"friends_unverifiable", "few_friends"} -> 1
    [] r.kind = "few_groups" -> 2
    [] r.kind = "few_badges" -> 3
    [] r.kind = "ba_badge" -> 4
    [] OTHER -> 0

FriendKinds(list) ==
  OfKind(list, "friends_unverifiable") \cup OfKind(list, "few_friends")

\* C26: check_social_activity returns at most four red flags, in the order
\* friend count, non-affiliated group count, badge count, affiliated badge,
\* at most one of each: a friend flag iff the count is unavailable or below
\* 30, a group flag iff fewer than 13 memberships are outside the affiliated
\* groups, a badge flag iff the threshold count is below 300, and exactly one
\* affiliated-badge flag iff the oldest sample holds an affiliated badge,
\* however many it holds.
C26_SocialFlags ==
  SampleEvaluated =>
    LET fl == activity_flags IN
    /\ Len(fl) <= 4
    /\ \A i \in 1..Len(fl) : SocialRank(fl[i]) # 0
    /\ \A i, j \in 1..Len(fl) : i < j => SocialRank(fl[i]) < SocialRank(fl[j])
    /\ FriendKinds(fl) # {} <=>
         (friend_count = None \/ friend_count[1] < MIN_FRIEND_COUNT)
    /\ OfKind(fl, "few_groups") # {} <=>
         Cardinality({i \in 1..Len(groups[1]) : groups[1][i].id \notin BA_UK_GROUP_IDS})
           < MIN_NON_BA_GROUP_COUNT
    /\ OfKind(fl, "few_badges") # {} <=> badge_count < MIN_BADGE_COUNT
    /\ IF HasBaBadge(oldest_badges)
       THEN Cardinality(OfKind(fl, "ba_badge")) = 1
       ELSE OfKind(fl, "ba_badge") = {}

\* all four flags, the sample holding two affiliated badges
C26_Witness ==
  /\ SampleEvaluated
  /\ Len(activity_flags) = 4
  /\ Cardinality({i \in 1..Len(oldest_badges) : oldest_badges[i] \in BA_BADGE_IDS}) = 2
  /\ friend_count = Some(MIN_FRIEND_COUNT - 1)

\* ------------------------------------------------------------------------
\* Properties of the blacklist rule: the absent owner
\* ------------------------------------------------------------------------

\* a group with the affiliation phrase in its name, outside the affiliated
\* groups, whose owner is absent
OwnerlessAffiliate(g) ==
  /\ Contains(S_british_army, Lower(g.name))
  /\ g.id \notin BA_UK_GROUP_IDS
  /\ g.owner = None

\* C27: an absent group owner is on no allowlist and is never taken for the
\* ID 0: a membership in a group that names the affiliation, is not an
\* affiliated group and has no owner always yields an unauthorized-affiliate
\* dismissal naming the group, whatever the friendly-owner allowlist holds,
\* the ID 0 included.
C27_AbsentOwnerIsNoOwner ==
  pc = "decide" =>
    \A i \in 1..Len(groups[1]) :
      OwnerlessAffiliate(groups[1][i]) =>
        \E k \in OfKind(instant_dismissals, "other_ba_group") :
          instant_dismissals[k].txt = groups[1][i].name

\* the allowlist holds 0 and 500: of two unofficial "BRITISH ARMY!" groups,
\* the one owned by 500 is passed and the one without owner dismisses
C27_Witness ==
  /\ pc = "decide"
  /\ FRIENDLY_OWNER_IDS = {0, 500}
  /\ groups = Some(<<G_fans, G_noowner>>)
  /\ Cardinality(OfKind(instant_dismissals, "other_ba_group")) = 1

====
